---- MODULE Spec2Model ----
(***************************************************************************)
(* Model of market_data.py: a linear pipeline that checks its              *)
(* configuration, fetches three kinds of feeds (Yahoo tickers, the V2TX    *)
(* file, FRED series), merges them on a daily calendar, formats the table  *)
(* as CSV and POSTs it to WEB_APP_URL.                                     *)
(*                                                                         *)
(* Strings whose characters matter (tickers, column names) are sequences   *)
(* of one-character strings.  Dates are day ordinals.                      *)
(***************************************************************************)
EXTENDS Integers, Sequences, FiniteSets, TLC

VARIABLES
    pc,             \* position in the script
    deps,           \* whether yfinance can be imported
    WEB_APP_URL,    \* os.environ.get('WEB_APP_URL'): "None", "" or a URL
    clock,          \* datetime.now().date() as of the latest read
    start_date, end_date,
    i,              \* index of the next element of YAHOO_TICKERS
    j,              \* index of the next element of FRED_SERIES
    all_data,       \* dict name -> series, in insertion order
    data_summary,   \* dict name -> status
    combined_df,    \* the DataFrame of main()
    csv_data,       \* combined_df.to_csv(index=False)
    payload,        \* the JSON body built by send_to_google_sheets
    net,            \* every network request issued so far, in order
    response,       \* what the POST came back with
    result,         \* return value of send_to_google_sheets
    ret,            \* how main() ended: "none", "True", "False", "raised"
    raised_in,      \* where an exception that left a function was raised
    exitCode,       \* argument of sys.exit, -1 while running
    tickers,        \* NameSpec: a list of ticker symbols
    series_ids,     \* NameSpec: a list of FRED series ids
    k,              \* NameSpec: index of the next feed
    nm_pc,          \* NameSpec: position
    nm_all_data,    \* NameSpec: all_data of the run over tickers/series_ids
    fetched,        \* NameSpec: the feeds that returned data, in order
    original_columns, \* NameSpec: columns before cleaning
    columns         \* NameSpec: columns after cleaning

pvars == <<pc, deps, WEB_APP_URL, clock, start_date, end_date, i, j, all_data,
           data_summary, combined_df, csv_data, payload, net, response,
           result, ret, raised_in, exitCode>>
nvars == <<tickers, series_ids, k, nm_pc, nm_all_data, fetched,
           original_columns, columns>>
vars == <<pvars, nvars>>

----------------------------------------------------------------------------
(* Bounds of the model *)

Day0 == 1000        \* the day the run starts on
MaxTicks == 1       \* midnights that may pass during one run
MaxListLen == 2     \* NameSpec: longest list of tickers drawn

----------------------------------------------------------------------------
(* Configuration, lines 48-51 *)

PERIOD_DAYS == 200
FRED_DAYS_BACK == 30

S_CSPX_L == <<"C","S","P","X",".","L">>
S_EXUS_L == <<"E","X","U","S",".","L">>
S_GLD == <<"G","L","D">>
S_DX_Y_NYB == <<"D","X","-","Y",".","N","Y","B">>
S_DGS10 == <<"D","G","S","1","0">>
S_V2TX == <<"V","2","T","X">>
S_Date == <<"D","a","t","e">>

YAHOO_TICKERS == <<S_CSPX_L, S_EXUS_L, S_GLD, S_DX_Y_NYB>>
FRED_SERIES == <<S_DGS10>>

----------------------------------------------------------------------------
(* Python str and dict *)

Range(s) == {s[n] : n \in DOMAIN s}

\* str.replace(old, new): every non-overlapping occurrence, left to right
RECURSIVE Replace(_, _, _)
Replace(s, old, new) ==
    IF Len(s) < Len(old) THEN s
    ELSE IF SubSeq(s, 1, Len(old)) = old
         THEN new \o Replace(SubSeq(s, Len(old) + 1, Len(s)), old, new)
         ELSE <<Head(s)>> \o Replace(Tail(s), old, new)

\* str.startswith(p)
StartsWith(s, p) == Len(s) >= Len(p) /\ SubSeq(s, 1, Len(p)) = p

\* s[1:]
Rest(s) == IF s = <<>> THEN <<>> ELSE Tail(s)

\* a dict is a sequence of <<key, value>> entries with distinct keys
DictKeys(d) == [n \in DOMAIN d |-> d[n][1]]
DictHas(d, key) == \E n \in DOMAIN d : d[n][1] = key
DictGet(d, key) == d[CHOOSE n \in DOMAIN d : d[n][1] = key][2]

\* d[key] = value done as d = {key: value}: the other entries are lost
DictSetLosing(d, key, value) == <<<<key, value>>>>

\* d[key] = value: in place when the key exists, appended otherwise
DictSet(d, key, value) ==
    IF DictHas(d, key)
    THEN [n \in DOMAIN d |-> IF d[n][1] = key THEN <<key, value>> ELSE d[n]]
    ELSE Append(d, <<key, value>>)

----------------------------------------------------------------------------
(* Feed and column names *)

\* line 187
clean_name(ticker) ==
    Replace(Replace(Replace(Replace(ticker, <<".","L">>, <<>>),
                            <<".","N","Y","B">>, <<>>),
                    <<"-">>, <<"_">>),
            <<"^">>, <<>>)

\* the column name with '^' written as '_' instead of removed
clean_column_underscore(col) ==
    Replace(Replace(Replace(col, <<"-">>, <<"_">>), <<"^">>, <<"_">>),
            <<".">>, <<"_">>)

\* line 301, one column
clean_column(col) ==
    Replace(Replace(Replace(col, <<"-">>, <<"_">>), <<"^">>, <<>>),
            <<".">>, <<"_">>)

\* line 301
clean_columns(cols) == [n \in DOMAIN cols |-> clean_column(cols[n])]

----------------------------------------------------------------------------
(* pandas Series and DataFrame *)

\* a Series is a sequence of <<date, value>> rows; a cell is [t, v]
Float(v) == [t |-> "float", v |-> v]
NaN == [t |-> "NaN", v |-> 0]
EmptyStr == [t |-> "str", v |-> 0]

SeriesIndex(s) == [n \in DOMAIN s |-> s[n][1]]
IndexUnique(s) == \A m, n \in DOMAIN s : s[m][1] = s[n][1] => m = n

\* pd.date_range(start, end, freq='D') without its last day
date_range_exclusive(start, end) == [n \in 1..(end - start) |-> start + n - 1]

\* pd.date_range(start, end, freq='D'), line 278
date_range(start, end) == [n \in 1..(end - start + 1) |-> start + n - 1]

\* pd.DataFrame(index=date_range), line 279
NewFrame(index) == [index |-> index, columns |-> <<>>, data |-> <<>>]

\* DataFrame.empty: some axis has length 0
FrameEmpty(df) == Len(df.index) = 0 \/ Len(df.columns) = 0

\* the series aligned on the frame's index (Series.reindex)
Reindex(series, index) ==
    [r \in DOMAIN index |->
        IF \E n \in DOMAIN series : series[n][1] = index[r]
        THEN Float(series[CHOOSE n \in DOMAIN series : series[n][1] = index[r]][2])
        ELSE NaN]

\* combined_df[name] = series raises ValueError on duplicate labels
SetItemRaises(df, series) ==
    /\ SeriesIndex(series) # df.index
    /\ Len(df.index) > 0
    /\ ~IndexUnique(series)

\* lines 282-283: every entry of all_data becomes a column, in the order of
\* the dict, aligned on the frame's index (the keys of a dict are distinct, so
\* no column is assigned twice)
AddAll(df, d) ==
    [df EXCEPT !.columns = @ \o DictKeys(d),
               !.data = @ \o [n \in DOMAIN d |-> Reindex(d[n][2], df.index)]]

Reverse(s) == [n \in DOMAIN s |-> s[Len(s) + 1 - n]]

\* sort_index(ascending=False), reset_index(), rename, strftime: lines 291-294
SortResetFormat(df) ==
    [index |-> [r \in DOMAIN df.index |-> r - 1],
     columns |-> <<S_Date>> \o df.columns,
     data |-> <<[r \in DOMAIN df.index |->
                    [t |-> "date_str", v |-> Reverse(df.index)[r]]]>>
              \o [c \in DOMAIN df.data |-> Reverse(df.data[c])]]

\* fillna(''), line 310
fillna(df) ==
    [df EXCEPT !.data =
        [c \in DOMAIN df.data |->
            [r \in DOMAIN df.data[c] |->
                IF df.data[c][r] = NaN THEN EmptyStr ELSE df.data[c][r]]]]

\* to_csv(index=False), line 326: a header line and one line per row
to_csv(df) ==
    [header |-> df.columns,
     rows |-> [r \in DOMAIN df.index |->
                [c \in DOMAIN df.columns |->
                    IF df.data[c][r].t = "float"
                    THEN [t |-> "float_str", v |-> df.data[c][r].v]
                    ELSE df.data[c][r]]]]

----------------------------------------------------------------------------
(* What the outside world may answer *)

Rows(n) == [status |-> "rows", n |-> n]
Status(text) == [status |-> text, n |-> 0]

\* yf.download / Ticker.history for the window: raises, or returns hist
YahooOutcomes(start, end) ==
    { [kind |-> "raise", empty |-> TRUE, has_close |-> FALSE, close |-> <<>>],
      [kind |-> "hist", empty |-> TRUE, has_close |-> TRUE, close |-> <<>>],
      [kind |-> "hist", empty |-> FALSE, has_close |-> FALSE,
       close |-> <<<<end, 1>>>>],
      [kind |-> "hist", empty |-> FALSE, has_close |-> TRUE,
       close |-> <<<<start, 1>>, <<end - 1, 2>>, <<end, 3>>>>] }

\* one line of h_v2tx.txt after split(';'): each part parses as one thing
Part(f, v) == [f |-> f, v |-> v]
HeaderLine == <<Part("text", 0), Part("text", 0), Part("text", 0)>>
GoodLine(d, v) == <<Part("date", d), Part("text", 0), Part("float", v)>>
BadLine == <<Part("text", 0), Part("text", 0)>>
BadValueLine(d) == <<Part("date", d), Part("text", 0), Part("text", 0)>>

\* requests.get(V2TX_URL): raises, or returns a status and the text's lines
V2TXResponses ==
    { [kind |-> "raise", status |-> 0, lines |-> <<>>],
      [kind |-> "http", status |-> 500, lines |-> <<>>],
      [kind |-> "http", status |-> 200, lines |-> <<>>],
      [kind |-> "http", status |-> 200,
       lines |-> <<HeaderLine, BadLine, BadValueLine(Day0)>>],
      [kind |-> "http", status |-> 200,
       lines |-> <<HeaderLine, GoodLine(Day0 - PERIOD_DAYS, 7),
                   GoodLine(Day0 + MaxTicks + 1, 8)>>],
      [kind |-> "http", status |-> 200,
       lines |-> <<HeaderLine, GoodLine(Day0 - PERIOD_DAYS, 7), BadLine,
                   GoodLine(Day0 - 1, 8), GoodLine(Day0, 9)>>],
      [kind |-> "http", status |-> 200,
       lines |-> <<HeaderLine, GoodLine(Day0 - 2, 7), GoodLine(Day0 - 2, 8)>>] }

\* requests.get(fredgraph.csv): raises, or a status and the parsed CSV
FredResponses(fred_start, fred_end) ==
    { [kind |-> "raise", status |-> 0, ncols |-> 0, rows |-> <<>>],
      [kind |-> "http", status |-> 404, ncols |-> 0, rows |-> <<>>],
      [kind |-> "http", status |-> 200, ncols |-> 1, rows |-> <<<<fred_end, 0>>>>],
      [kind |-> "http", status |-> 200, ncols |-> 2, rows |-> <<>>],
      [kind |-> "http", status |-> 200, ncols |-> 2,
       rows |-> <<<<fred_start, 4>>, <<fred_end, 5>>>>] }

\* a JSON value: its type, its 'success' member as JSON text, its size
Json(type, success, size) == [type |-> type, success |-> success, size |-> size]
None == Json("None", "absent", 0)

\* requests.post(WEB_APP_URL): raises, or a status and a body
PostResponses ==
    { [kind |-> "raise", status |-> 0, json_ok |-> FALSE, body |-> None],
      [kind |-> "http", status |-> 500, json_ok |-> TRUE,
       body |-> Json("dict", "true", 3)],
      [kind |-> "http", status |-> 200, json_ok |-> FALSE, body |-> None],
      [kind |-> "http", status |-> 200, json_ok |-> TRUE,
       body |-> Json("dict", "true", 3)],
      [kind |-> "http", status |-> 200, json_ok |-> TRUE,
       body |-> Json("dict", "false", 2)],
      [kind |-> "http", status |-> 200, json_ok |-> TRUE,
       body |-> Json("dict", "absent", 1)],
      [kind |-> "http", status |-> 200, json_ok |-> TRUE,
       body |-> Json("dict", "absent", 0)],
      [kind |-> "http", status |-> 200, json_ok |-> TRUE,
       body |-> Json("dict", "1", 1)],
      [kind |-> "http", status |-> 200, json_ok |-> TRUE,
       body |-> Json("list", "absent", 1)],
      [kind |-> "http", status |-> 200, json_ok |-> TRUE,
       body |-> Json("null", "absent", 0)] }

----------------------------------------------------------------------------
(* Helpers of the script *)

Get(target, id, cosd, coed) ==
    [method |-> "GET", target |-> target, id |-> id, cosd |-> cosd, coed |-> coed]
Post == [method |-> "POST", target |-> "WEB_APP_URL", id |-> <<>>,
         cosd |-> 0, coed |-> 0]

\* lines 178-182: indices go through Ticker.history, the rest through download
yahoo_api(ticker) ==
    IF StartsWith(ticker, <<"^">>) THEN "yfinance.history" ELSE "yfinance.download"

\* `if not WEB_APP_URL` that lets the empty string through
NotSetNoneOnly(url) == url = "None"

\* `if not WEB_APP_URL`, line 35
NotSet(url) == url \in {"None", ""}

\* lines 212-221: the (date, value) rows of the lines that parse
RECURSIVE ParseV2TX(_)
ParseV2TX(lines) ==
    IF lines = <<>> THEN <<>>
    ELSE LET parts == Head(lines)
         IN  IF Len(parts) = 3 /\ parts[3].f = "float" /\ parts[1].f = "date"
             THEN <<<<parts[1].v, parts[3].v>>>> \o ParseV2TX(Tail(lines))
             ELSE ParseV2TX(Tail(lines))

\* lines 227-230: the rows inside [start, end]
RECURSIVE FilterRange(_, _, _)
FilterRange(s, start, end) ==
    IF s = <<>> THEN <<>>
    ELSE IF Head(s)[1] >= start /\ Head(s)[1] <= end
         THEN <<Head(s)>> \o FilterRange(Tail(s), start, end)
         ELSE FilterRange(Tail(s), start, end)

\* lines 57-58: the window fetch_fred_data asks for
fred_window(fred_end, days_back) == <<fred_end - (days_back - 1), fred_end>>

\* lines 70-85: the Series fetch_fred_data returns for a response
fetch_fred_data(r) ==
    IF r.kind = "http" /\ r.status = 200 /\ r.ncols >= 2 THEN r.rows ELSE <<>>

\* Python truth of a JSON value
Truthy(v) ==
    \/ v.type = "dict" /\ v.size > 0
    \/ v.type = "list" /\ v.size > 0

\* Python truth of result.get('success')
SuccessTruthy(v) == v.success \in {"true", "1"}

\* lines 140-156: what send_to_google_sheets returns for a response
send_result(r) ==
    IF r.kind = "http" /\ r.status = 200 /\ r.json_ok
    THEN (IF r.body.type = "null" THEN None ELSE r.body)
    ELSE None

\* sys.exit(0) whatever main() returned
exit_code_always_zero(r) == 0

\* lines 369-390
exit_code(r) == IF r = "True" THEN 0 ELSE 1

----------------------------------------------------------------------------
(* The run of the script *)

NoFrame == NewFrame(<<>>)
NoCsv == [header |-> <<>>, rows |-> <<>>]
NoPayload == [csv_data |-> NoCsv,
              metadata |-> [period_days |-> 0, start_date |-> 0,
                            end_date |-> 0, data_summary |-> <<>>]]
NoResponse == [kind |-> "none", status |-> 0, json_ok |-> FALSE, body |-> None]

NamesIdle ==
    /\ tickers = <<>> /\ series_ids = <<>> /\ k = 0 /\ nm_pc = "idle"
    /\ nm_all_data = <<>> /\ fetched = <<>>
    /\ original_columns = <<>> /\ columns = <<>>

Init ==
    /\ pc = "imports"
    /\ deps \in BOOLEAN
    /\ WEB_APP_URL \in {"None", "", "https://script.google.com/x"}
    /\ clock = Day0
    /\ start_date = 0 /\ end_date = 0
    /\ i = 1 /\ j = 1
    /\ all_data = <<>> /\ data_summary = <<>>
    /\ combined_df = NoFrame /\ csv_data = NoCsv /\ payload = NoPayload
    /\ net = <<>>
    /\ response = NoResponse /\ result = None
    /\ ret = "none" /\ raised_in = "none" /\ exitCode = -1
    /\ NamesIdle

\* sys.exit(code) at module level
SysExit(code) ==
    /\ pc' = "done"
    /\ exitCode' = code
    /\ UNCHANGED <<deps, WEB_APP_URL, clock, start_date, end_date, i, j,
                   all_data, data_summary, combined_df, csv_data, payload,
                   net, response, result, ret, raised_in>>

\* lines 6-31: the imports and the dependency check
Imports ==
    /\ pc = "imports"
    /\ IF deps
       THEN /\ pc' = "config"
            /\ UNCHANGED <<deps, WEB_APP_URL, clock, start_date, end_date, i,
                           j, all_data, data_summary, combined_df, csv_data,
                           payload, net, response, result, ret, raised_in,
                           exitCode>>
       ELSE SysExit(1)
    /\ UNCHANGED nvars

\* lines 34-46: the configuration check
ConfigCheck ==
    /\ pc = "config"
    /\ IF NotSet(WEB_APP_URL)
       THEN SysExit(1)
       ELSE /\ pc' = "main"
            /\ UNCHANGED <<deps, WEB_APP_URL, clock, start_date, end_date, i,
                           j, all_data, data_summary, combined_df, csv_data,
                           payload, net, response, result, ret, raised_in,
                           exitCode>>
    /\ UNCHANGED nvars

\* lines 160-169: the window and the empty dictionaries
CalcDates ==
    /\ pc = "main"
    /\ end_date' = clock
    /\ start_date' = clock - (PERIOD_DAYS - 1)
    /\ all_data' = <<>> /\ data_summary' = <<>>
    /\ i' = 1
    /\ pc' = "yahoo"
    /\ UNCHANGED <<deps, WEB_APP_URL, clock, j, combined_df, csv_data, payload,
                   net, response, result, ret, raised_in, exitCode>>
    /\ UNCHANGED nvars

\* the loop of lines 173-200 with the try around the whole loop: an error
\* in one pass ends the loop
yahoo_next_try_around_loop(n, h) ==
    IF h.kind = "raise" \/ n >= Len(YAHOO_TICKERS) THEN "v2tx" ELSE "yahoo"

\* lines 173-174, 198-200: the try is inside the loop, so every pass is
\* followed by the next ticker, or by section 3 after the last one
yahoo_next(n, h) == IF n < Len(YAHOO_TICKERS) THEN "yahoo" ELSE "v2tx"

\* lines 173-200: one pass of the loop over YAHOO_TICKERS
FetchYahoo ==
    /\ pc = "yahoo"
    /\ \E h \in YahooOutcomes(start_date, end_date) :
        LET ticker == YAHOO_TICKERS[i]
        IN  /\ net' = Append(net, Get(yahoo_api(ticker), ticker, start_date, end_date + 1))
            /\ IF h.kind = "raise"
               THEN /\ data_summary' = DictSet(data_summary, ticker, Status("Error"))
                    /\ all_data' = all_data
               ELSE IF h.empty
               THEN /\ data_summary' = DictSet(data_summary, ticker, Status("No data"))
                    /\ all_data' = all_data
               ELSE IF ~h.has_close
               THEN /\ data_summary' = DictSet(data_summary, ticker,
                                               Status("No Close column"))
                    /\ all_data' = all_data
               ELSE /\ all_data' = DictSet(all_data, clean_name(ticker), h.close)
                    /\ data_summary' = DictSet(data_summary, clean_name(ticker),
                                               Rows(Len(h.close)))
            /\ pc' = yahoo_next(i, h)
    /\ i' = i + 1
    /\ UNCHANGED <<deps, WEB_APP_URL, clock, start_date, end_date, j,
                   combined_df, csv_data, payload, response, result, ret,
                   raised_in, exitCode>>
    /\ UNCHANGED nvars

\* lines 203-248
FetchV2TX ==
    /\ pc = "v2tx"
    /\ \E r \in V2TXResponses :
        LET v2tx_data == ParseV2TX(Rest(r.lines))
            v2tx_df == FilterRange(v2tx_data, start_date, end_date)
        IN  /\ net' = Append(net, Get("stoxx", S_V2TX, 0, 0))
            /\ IF r.kind = "raise"
               THEN /\ data_summary' = DictSet(data_summary, S_V2TX, Status("Error"))
                    /\ all_data' = all_data
               ELSE IF r.status # 200
               THEN /\ data_summary' = DictSet(data_summary, S_V2TX,
                                               [status |-> "HTTP", n |-> r.status])
                    /\ all_data' = all_data
               ELSE IF v2tx_data = <<>>
               THEN /\ data_summary' = DictSet(data_summary, S_V2TX,
                                               Status("Parse error"))
                    /\ all_data' = all_data
               ELSE IF v2tx_df = <<>>
               THEN /\ data_summary' = DictSet(data_summary, S_V2TX,
                                               Status("No data in range"))
                    /\ all_data' = all_data
               ELSE /\ all_data' = DictSet(all_data, S_V2TX, v2tx_df)
                    /\ data_summary' = DictSet(data_summary, S_V2TX,
                                               Rows(Len(v2tx_df)))
    /\ j' = 1
    /\ pc' = "fred"
    /\ UNCHANGED <<deps, WEB_APP_URL, clock, start_date, end_date, i,
                   combined_df, csv_data, payload, response, result, ret,
                   raised_in, exitCode>>
    /\ UNCHANGED nvars

\* lines 252-266: one pass of the loop over FRED_SERIES, fetch_fred_data included
FetchFred ==
    /\ pc = "fred"
    /\ \E now \in clock..(Day0 + MaxTicks) :
        LET series_id == FRED_SERIES[j]
            w == fred_window(now, FRED_DAYS_BACK)
        IN  /\ clock' = now
            /\ net' = Append(net, Get("fred", series_id, w[1], w[2]))
            /\ \E r \in FredResponses(w[1], w[2]) :
                LET fred_series_data == fetch_fred_data(r)
                IN  IF fred_series_data # <<>>
                    THEN /\ all_data' = DictSet(all_data, series_id, fred_series_data)
                         /\ data_summary' = DictSet(data_summary, series_id,
                                                    Rows(Len(fred_series_data)))
                    ELSE /\ data_summary' = DictSet(data_summary, series_id,
                                                    Status("No data"))
                         /\ all_data' = all_data
    /\ j' = j + 1
    /\ pc' = IF j < Len(FRED_SERIES) THEN "fred" ELSE "check"
    /\ UNCHANGED <<deps, WEB_APP_URL, start_date, end_date, i, combined_df,
                   csv_data, payload, response, result, ret, raised_in,
                   exitCode>>
    /\ UNCHANGED nvars

\* main() returns or raises: its locals are gone, on to the code after the
\* call in line 370
Leave(how, where) ==
    /\ ret' = how
    /\ raised_in' = where
    /\ pc' = "exit"
    /\ start_date' = 0 /\ end_date' = 0
    /\ i' = 1 /\ j' = 1
    /\ all_data' = <<>> /\ data_summary' = <<>>
    /\ combined_df' = NoFrame /\ csv_data' = NoCsv /\ payload' = NoPayload
    /\ result' = None

\* main() goes on at `next`; only the listed locals change
GoOn(next) ==
    /\ pc' = next
    /\ UNCHANGED <<ret, raised_in, start_date, end_date, i, j, all_data,
                   data_summary>>

\* `if not all_data`, line 271
no_data(d) == d = <<>>

\* lines 269-275
CheckData ==
    /\ pc = "check"
    /\ IF no_data(all_data)
       THEN Leave("False", "none")
       ELSE /\ GoOn("merge")
            /\ UNCHANGED <<combined_df, csv_data, payload, result>>
    /\ UNCHANGED <<deps, WEB_APP_URL, clock, net, response, exitCode>>
    /\ UNCHANGED nvars

\* lines 277-288
Merge ==
    /\ pc = "merge"
    /\ LET frame == NewFrame(date_range(start_date, end_date))
           merged == AddAll(frame, all_data)
       IN  IF \E n \in DOMAIN all_data : SetItemRaises(frame, all_data[n][2])
           THEN Leave("raised", "main")
           ELSE IF FrameEmpty(merged)
           THEN Leave("False", "none")
           ELSE /\ combined_df' = merged
                /\ GoOn("sort")
                /\ UNCHANGED <<csv_data, payload, result>>
    /\ UNCHANGED <<deps, WEB_APP_URL, clock, net, response, exitCode>>
    /\ UNCHANGED nvars

\* lines 290-294
SortAndDate ==
    /\ pc = "sort"
    /\ combined_df' = SortResetFormat(combined_df)
    /\ GoOn("clean")
    /\ UNCHANGED <<csv_data, payload, result>>
    /\ UNCHANGED <<deps, WEB_APP_URL, clock, net, response, exitCode>>
    /\ UNCHANGED nvars

\* lines 296-304
CleanColumns ==
    /\ pc = "clean"
    /\ combined_df' = [combined_df EXCEPT !.columns = clean_columns(@)]
    /\ GoOn("fillna")
    /\ UNCHANGED <<csv_data, payload, result>>
    /\ UNCHANGED <<deps, WEB_APP_URL, clock, net, response, exitCode>>
    /\ UNCHANGED nvars

\* lines 306-328
FillAndCsv ==
    /\ pc = "fillna"
    /\ combined_df' = fillna(combined_df)
    /\ csv_data' = to_csv(combined_df')
    /\ GoOn("send")
    /\ UNCHANGED <<payload, result>>
    /\ UNCHANGED <<deps, WEB_APP_URL, clock, net, response, exitCode>>
    /\ UNCHANGED nvars

\* lines 333-339
Metadata ==
    [period_days |-> PERIOD_DAYS, start_date |-> start_date,
     end_date |-> end_date, data_summary |-> data_summary]

\* lines 341, 89-131: the call, the debug file and the payload; an OSError of
\* open() or write() is outside the try of line 133 and leaves the function
\* and main()
SendPrepare ==
    /\ pc = "send"
    /\ \E file_written \in BOOLEAN :
        IF file_written
        THEN /\ payload' = [csv_data |-> csv_data, metadata |-> Metadata]
             /\ GoOn("post")
             /\ UNCHANGED <<combined_df, csv_data, result>>
        ELSE Leave("raised", "send_to_google_sheets")
    /\ UNCHANGED <<deps, WEB_APP_URL, clock, net, response, exitCode>>
    /\ UNCHANGED nvars

\* the POST sent again when it failed
after_post_retry(r) == IF send_result(r) = None THEN "post" ELSE "handle"

\* lines 135-156: one POST, then back in main() whatever came of it
after_post(r) == "handle"

\* lines 133-156: the POST and the value returned to main(); the payload is
\* a local of send_to_google_sheets
SendPost ==
    /\ pc = "post"
    /\ \E r \in PostResponses :
        /\ net' = Append(net, Post)
        /\ response' = r
        /\ result' = send_result(r)
        /\ GoOn(after_post(r))
        /\ payload' = IF after_post(r) = "post" THEN payload ELSE NoPayload
    /\ UNCHANGED <<combined_df, csv_data>>
    /\ UNCHANGED <<deps, WEB_APP_URL, clock, exitCode>>
    /\ UNCHANGED nvars

\* lines 343-365: result.get raises on a JSON value that is no object; the
\* backup file of line 356 may fail to be written
HandleResult ==
    /\ pc = "handle"
    /\ IF ~Truthy(result)
       THEN Leave("False", "none")
       ELSE IF result.type # "dict"
       THEN Leave("raised", "main")
       ELSE IF ~SuccessTruthy(result)
       THEN Leave("False", "none")
       ELSE \E backup_written \in BOOLEAN :
                IF backup_written
                THEN Leave("True", "none")
                ELSE Leave("raised", "main")
    /\ UNCHANGED <<deps, WEB_APP_URL, clock, net, response, exitCode>>
    /\ UNCHANGED nvars

\* lines 368-390
Exit ==
    /\ pc = "exit"
    /\ pc' = "done"
    /\ exitCode' = exit_code(ret)
    /\ UNCHANGED <<deps, WEB_APP_URL, clock, start_date, end_date, i, j,
                   all_data, data_summary, combined_df, csv_data, payload,
                   net, response, result, ret, raised_in>>
    /\ UNCHANGED nvars

Next ==
    \/ Imports
    \/ ConfigCheck
    \/ CalcDates
    \/ FetchYahoo
    \/ FetchV2TX
    \/ FetchFred
    \/ CheckData
    \/ Merge
    \/ SortAndDate
    \/ CleanColumns
    \/ FillAndCsv
    \/ SendPrepare
    \/ SendPost
    \/ HandleResult
    \/ Exit

Spec == Init /\ [][Next]_vars

----------------------------------------------------------------------------
(* NameSpec: the naming code of main() applied to lists of feed identifiers. *)
(* The lists are drawn; each feed returns data or not; the keys of all_data  *)
(* become the columns, which are cleaned.                                    *)

S_GLD_L == <<"G","L","D",".","L">>
S_CARET_GLD == <<"^","G","L","D">>
S_DX_Y == <<"D","X","_","Y">>
S_BRK_B == <<"B","R","K",".","B">>
S_BRK_DASH_B == <<"B","R","K","-","B">>
S_CARET_TNX == <<"^","T","N","X">>
S_T10Y_2Y == <<"T","1","0","Y",".","2","Y">>

Symbols == {S_CSPX_L, S_GLD, S_DX_Y_NYB, S_GLD_L, S_CARET_GLD, S_DX_Y,
            S_BRK_B, S_BRK_DASH_B}
SeriesIdLists == {FRED_SERIES, <<S_CARET_TNX>>, <<S_T10Y_2Y>>, <<S_DGS10, S_GLD>>}

Distinct(s) == \A m, n \in DOMAIN s : s[m] = s[n] => m = n

TickerLists ==
    {YAHOO_TICKERS} \cup
    {t \in UNION {[1..n -> Symbols] : n \in 1..MaxListLen} : Distinct(t)}

PipelineIdle ==
    /\ pc = "idle" /\ deps = TRUE /\ WEB_APP_URL = "None" /\ clock = Day0
    /\ start_date = 0 /\ end_date = 0 /\ i = 1 /\ j = 1
    /\ all_data = <<>> /\ data_summary = <<>>
    /\ combined_df = NoFrame /\ csv_data = NoCsv /\ payload = NoPayload
    /\ net = <<>> /\ response = NoResponse /\ result = None
    /\ ret = "none" /\ raised_in = "none" /\ exitCode = -1

NameInit ==
    /\ PipelineIdle
    /\ tickers \in TickerLists
    /\ series_ids \in SeriesIdLists
    /\ Distinct(tickers \o <<S_V2TX>> \o series_ids)
    /\ k = 1
    /\ nm_pc = "yahoo"
    /\ nm_all_data = <<>> /\ fetched = <<>>
    /\ original_columns = <<>> /\ columns = <<>>

\* the one-row series of the n-th feed that returns data
SeriesOf(n) == <<<<Day0, n>>>>

\* lines 173-200, the names only: the feed returns data or contributes nothing
NameYahoo ==
    /\ nm_pc = "yahoo"
    /\ \E got \in BOOLEAN :
        IF got
        THEN /\ nm_all_data' = DictSet(nm_all_data, clean_name(tickers[k]),
                                       SeriesOf(Len(fetched) + 1))
             /\ fetched' = Append(fetched, tickers[k])
        ELSE UNCHANGED <<nm_all_data, fetched>>
    /\ k' = k + 1
    /\ nm_pc' = IF k < Len(tickers) THEN "yahoo" ELSE "v2tx"
    /\ UNCHANGED <<tickers, series_ids, original_columns, columns>>
    /\ UNCHANGED pvars

\* lines 232-234, the names only
NameV2TX ==
    /\ nm_pc = "v2tx"
    /\ \E got \in BOOLEAN :
        IF got
        THEN /\ nm_all_data' = DictSet(nm_all_data, S_V2TX, SeriesOf(Len(fetched) + 1))
             /\ fetched' = Append(fetched, S_V2TX)
        ELSE UNCHANGED <<nm_all_data, fetched>>
    /\ k' = 1
    /\ nm_pc' = "fred"
    /\ UNCHANGED <<tickers, series_ids, original_columns, columns>>
    /\ UNCHANGED pvars

\* lines 252-262, the names only
NameFred ==
    /\ nm_pc = "fred"
    /\ \E got \in BOOLEAN :
        IF got
        THEN /\ nm_all_data' = DictSet(nm_all_data, series_ids[k],
                                       SeriesOf(Len(fetched) + 1))
             /\ fetched' = Append(fetched, series_ids[k])
        ELSE UNCHANGED <<nm_all_data, fetched>>
    /\ k' = k + 1
    /\ nm_pc' = IF k < Len(series_ids) THEN "fred" ELSE "columns"
    /\ UNCHANGED <<tickers, series_ids, original_columns, columns>>
    /\ UNCHANGED pvars

\* lines 282-283, 292-293, 300-301: the columns of combined_df, then cleaned
NameColumns ==
    /\ nm_pc = "columns"
    /\ original_columns' = <<S_Date>> \o DictKeys(nm_all_data)
    /\ columns' = clean_columns(original_columns')
    /\ nm_pc' = "done"
    /\ UNCHANGED <<tickers, series_ids, k, nm_all_data, fetched>>
    /\ UNCHANGED pvars

NameNext == NameYahoo \/ NameV2TX \/ NameFred \/ NameColumns

NameSpec == NameInit /\ [][NameNext]_vars

----------------------------------------------------------------------------
(* Properties *)

Feeds == YAHOO_TICKERS \o <<S_V2TX>> \o FRED_SERIES

Attempts(id) ==
    Cardinality({n \in DOMAIN net : net[n].method = "GET" /\ net[n].id = id})
Posts == Cardinality({n \in DOMAIN net : net[n].method = "POST"})

\* the configuration check was passed: main() was entered
PassedConfig ==
    /\ pc \notin {"idle", "imports", "config"}
    /\ ~(pc = "done" /\ ret = "none")

\* sections 2-4 are over
FetchingOver ==
    /\ PassedConfig
    /\ pc \notin {"main", "yahoo", "v2tx", "fred"}

\* main() is running and sections 2-4 are over
InMainAfterFetch ==
    pc \in {"check", "merge", "sort", "clean", "fillna", "send", "post", "handle"}

\* main() is running and has its window
InMain == pc \in {"yahoo", "v2tx", "fred"} \/ InMainAfterFetch

Exited == pc = "done"
ExitedNonZero == pc = "done" /\ exitCode >= 1

\* C1: from the state in which the fetchers are through and all_data is
\* empty, no POST has been logged and the next step is the return of False
\* from main() with no request made; and a return of False is followed by the
\* exit of the process with a non-zero code and no request made.
C1_NoDataFails ==
    [][ /\ (pc = "check" /\ all_data = <<>>) =>
              (Posts = 0 /\ net' = net /\ pc' = "exit" /\ ret' = "False")
        /\ (pc = "exit" /\ ret = "False") =>
              (net' = net /\ Exited' /\ exitCode' >= 1) ]_vars

C1_Witness ==
    /\ Exited /\ ret = "False" /\ exitCode = 1
    /\ Posts = 0 /\ Len(net) = Len(Feeds)

\* C2: with WEB_APP_URL absent or empty no request (GET or POST) is ever
\* logged, main() is never entered, and the process exits non-zero.
C2_NoUrlNoNetwork ==
    WEB_APP_URL \in {"None", ""} =>
        /\ net = <<>>
        /\ ~PassedConfig
        /\ (Exited => ExitedNonZero)

C2_Witness == Exited /\ deps /\ WEB_APP_URL = "" /\ exitCode = 1 /\ net = <<>>

\* the POST came back 200 with a JSON object whose success member is true
PublishSucceeded ==
    /\ Posts = 1
    /\ response.kind = "http" /\ response.status = 200 /\ response.json_ok
    /\ response.body.type = "dict" /\ response.body.success = "true"

\* C3: the exit code is 0 exactly when the single POST returned HTTP 200 with
\* a JSON body whose success field is true.
C3_ExitZeroIffPublished == Exited => (exitCode = 0 <=> PublishSucceeded)

\* the status the run recorded for a feed, under its raw or its cleaned name
FeedOutcomeOk(id) ==
    LET name == clean_name(id)
    IN  \/ /\ DictHas(all_data, name)
           /\ DictHas(data_summary, name)
           /\ DictGet(data_summary, name).status = "rows"
        \/ /\ ~DictHas(all_data, name)
           /\ DictHas(data_summary, id)
           /\ DictGet(data_summary, id).status # "rows"

\* C4: in a run that passed the configuration check no feed is attempted
\* twice, and once the fetchers are through every configured ticker, V2TX and
\* every FRED series has been attempted exactly once, each leaving either a
\* series with an "N rows" status or no series and a failure status.
C4_EveryFeedAttemptedOnce ==
    PassedConfig =>
        /\ \A n \in DOMAIN Feeds : Attempts(Feeds[n]) <= 1
        /\ FetchingOver => \A n \in DOMAIN Feeds : Attempts(Feeds[n]) = 1
        /\ InMainAfterFetch => \A n \in DOMAIN Feeds : FeedOutcomeOk(Feeds[n])

C4_Witness ==
    /\ pc = "check"
    /\ DictHas(data_summary, YAHOO_TICKERS[1])
    /\ DictGet(data_summary, YAHOO_TICKERS[1]).status = "Error"
    /\ DictHas(data_summary, S_V2TX)
    /\ DictGet(data_summary, S_V2TX).status = "HTTP"
    /\ DictHas(all_data, clean_name(YAHOO_TICKERS[4]))
    /\ DictHas(all_data, S_DGS10)

\* C5: no exception leaves send_to_google_sheets.
C5_PublisherNeverRaises == raised_in # "send_to_google_sheets"

\* the dates of the table's rows: the index, or the Date column once it exists
TableDates(df) ==
    IF df.columns # <<>> /\ df.columns[1] = S_Date
    THEN [r \in DOMAIN df.data[1] |-> df.data[1][r].v]
    ELSE df.index

CsvDates(csv) == [r \in DOMAIN csv.rows |-> csv.rows[r][1].v]

OneRowPerDay(dates) ==
    /\ Len(dates) = PERIOD_DAYS
    /\ Range(dates) = start_date..end_date
    /\ end_date - start_date + 1 = PERIOD_DAYS

\* C6: once the merger has built the table, the table, every column of it and
\* the CSV body have PERIOD_DAYS rows whose dates are exactly the days of
\* [start_date, end_date], each once.
C6_OneRowPerDay ==
    /\ pc \in {"sort", "clean", "fillna", "send", "post", "handle"} =>
        /\ OneRowPerDay(TableDates(combined_df))
        /\ \A c \in DOMAIN combined_df.data :
              Len(combined_df.data[c]) = PERIOD_DAYS
    /\ pc \in {"send", "post", "handle"} =>
        /\ OneRowPerDay(CsvDates(csv_data))
        /\ csv_data.header = combined_df.columns

C6_Witness ==
    /\ pc = "handle"
    /\ Len(all_data) = 1
    /\ DictHas(all_data, S_DGS10)
    /\ clock > end_date
    /\ Len(csv_data.rows) = PERIOD_DAYS

\* C8: every FRED request of the run carries the window of the run:
\* cosd = start_date and coed = end_date.
C8_FredWindowIsRunWindow ==
    InMain =>
        \A n \in DOMAIN net :
            net[n].target = "fred" =>
                net[n].cosd = start_date /\ net[n].coed = end_date

\* the phase of the state machine
Phase ==
    CASE pc \in {"idle", "imports", "config", "main"} -> "INIT"
      [] pc \in {"yahoo", "v2tx", "fred"} -> "FETCHING"
      [] pc \in {"check", "merge"} -> "MERGING"
      [] pc \in {"sort", "clean", "fillna"} -> "FORMATTING"
      [] pc \in {"send", "post", "handle"} -> "PUBLISHING"
      [] pc = "exit" -> (IF ret = "True" THEN "SUCCESS" ELSE "FAILURE")
      [] pc = "done" -> (IF exitCode = 0 THEN "SUCCESS" ELSE "FAILURE")

Rank(phase) ==
    CASE phase = "INIT" -> 1
      [] phase = "FETCHING" -> 2
      [] phase = "MERGING" -> 3
      [] phase = "FORMATTING" -> 4
      [] phase = "PUBLISHING" -> 5
      [] phase \in {"SUCCESS", "FAILURE"} -> 6

\* a step keeps the phase, moves to the next one, or fails
PhaseStep ==
    \/ Phase' = Phase
    \/ /\ Rank(Phase) < 6
       /\ Rank(Phase') = Rank(Phase) + 1 \/ Phase' = "FAILURE"

\* how far the script has come: its position, and the loop index inside it
Position ==
    LET at == CASE pc \in {"idle", "imports"} -> 1
                [] pc = "config" -> 2
                [] pc = "main" -> 3
                [] pc = "yahoo" -> 4
                [] pc = "v2tx" -> 5
                [] pc = "fred" -> 6
                [] pc = "check" -> 7
                [] pc = "merge" -> 8
                [] pc = "sort" -> 9
                [] pc = "clean" -> 10
                [] pc = "fillna" -> 11
                [] pc = "send" -> 12
                [] pc = "post" -> 13
                [] pc = "handle" -> 14
                [] pc = "exit" -> 15
                [] pc = "done" -> 16
    IN  <<at, IF pc = "yahoo" THEN i ELSE IF pc = "fred" THEN j ELSE 0>>

Forward(p, q) == p[1] < q[1] \/ (p[1] = q[1] /\ p[2] < q[2])

\* at most one POST, sent in or after PUBLISHING, after every feed was
\* attempted, and the last request of the run
PostRule ==
    /\ Posts <= 1
    /\ Posts >= 1 =>
        /\ Rank(Phase) >= 5
        /\ \A n \in DOMAIN Feeds : Attempts(Feeds[n]) = 1
        /\ net[Len(net)].method = "POST"

\* C10: every step keeps the phase, enters the next phase of INIT, FETCHING,
\* MERGING, FORMATTING, PUBLISHING, {SUCCESS, FAILURE}, or fails; SUCCESS and
\* FAILURE are never left; at most one POST is logged, only in or after
\* PUBLISHING with every feed attempted, and never a second one; and every
\* run ends: each step moves the script strictly forward through its finitely
\* many positions, and no state short of the exit is without a next step.
C10_PhasesInOrder ==
    /\ [][PhaseStep /\ PostRule' /\ Forward(Position, Position')]_vars
    /\ [](Exited \/ ENABLED Next)

C10_Witness == Exited /\ Posts = 1 /\ exitCode = 1 /\ response.status = 500

----------------------------------------------------------------------------
(* Properties of the names, under NameSpec *)

NamesDone == nm_pc = "done"

\* C7, as stated: for any pairwise distinct identifiers, every feed that
\* returned data keeps its own entry in all_data and the columns of the
\* table are pairwise distinct.
C7_NamesUnique ==
    NamesDone =>
        /\ Len(nm_all_data) = Len(fetched)
        /\ Distinct(columns)

\* C7, amended: for the configured identifiers (YAHOO_TICKERS, V2TX,
\* FRED_SERIES) every feed that returned data keeps its own entry in all_data
\* and the columns of the table are pairwise distinct.
C7_ConfiguredNamesUnique ==
    (NamesDone /\ tickers = YAHOO_TICKERS /\ series_ids = FRED_SERIES) =>
        /\ Len(nm_all_data) = Len(fetched)
        /\ Distinct(columns)

C7_Witness ==
    /\ NamesDone /\ tickers = YAHOO_TICKERS /\ series_ids = FRED_SERIES
    /\ Len(fetched) = Len(Feeds)
    /\ Len(columns) = Len(Feeds) + 1

\* character by character: what each character of a column name becomes
RECURSIVE MapChars(_, _)
MapChars(s, caret) ==
    IF s = <<>> THEN <<>>
    ELSE (IF Head(s) \in {"-", "."} THEN <<"_">>
          ELSE IF Head(s) = "^" THEN caret
          ELSE <<Head(s)>>) \o MapChars(Tail(s), caret)

\* C9, as stated: every output column name is the input name with each '-',
\* '^' and '.' replaced by one '_'.
C9_AllThreeToUnderscore ==
    NamesDone =>
        /\ Len(columns) = Len(original_columns)
        /\ \A n \in DOMAIN columns :
              columns[n] = MapChars(original_columns[n], <<"_">>)

\* C9, amended: every output column name is the input name with each '-' and
\* '.' replaced by one '_' and each '^' removed.
C9_CaretRemoved ==
    NamesDone =>
        /\ Len(columns) = Len(original_columns)
        /\ \A n \in DOMAIN columns :
              columns[n] = MapChars(original_columns[n], <<>>)

C9_Witness ==
    /\ NamesDone
    /\ \E n \in DOMAIN original_columns :
          /\ "^" \in Range(original_columns[n])
          /\ columns[n] # original_columns[n]
    /\ \E n \in DOMAIN original_columns : "." \in Range(original_columns[n])

====
